---------------------------- MODULE Spec2Model ----------------------------
(***************************************************************************)
(* Model of the three stand-alone scripts of the repository:               *)
(*   src/xanadu/graph_custom.py   (graph_custom, gen_random_search, main)   *)
(*   src/xanadu/teleportation.py  (3-mode teleportation program)            *)
(*   src/insr/simulation.py       (fbpic simulation set-up and run)         *)
(* One run of the model is one run of one script; `script` says which.      *)
(* The external libraries are modelled by what the scripts observe of them: *)
(* the values they return and the objects the scripts build with them.      *)
(***************************************************************************)
EXTENDS Integers, Sequences, FiniteSets, TLC

VARIABLES
    script,         \* which script this run executes
    pc,             \* position in the script
    exc,            \* the uncaught exception, if any: [in, at]
    n_nodes,        \* graph_custom / gen_random_search parameter
    show_plot,      \* graph_custom parameter
    G,              \* the networkx graph: [nodes, adj]
    tree,           \* the graph as random_tree returned it (line 14)
    n_extra_edges,  \* graph_custom local
    it,             \* iterations of the for loop completed
    A,              \* gen_random_search local: adjacency matrix
    prog,           \* sf.Program: [modes, ops]
    eng,            \* engine: [kind, backend, runs]
    results,        \* result of eng.run: [samples]
    stdout,         \* what print has written, in order
    samples_npy,    \* the arrays written to samples.npy, in order
    sim             \* fbpic Simulation object

vars == <<script, pc, exc, n_nodes, show_plot, G, tree, n_extra_edges, it,
          A, prog, eng, results, stdout, samples_npy, sim>>

gcVars  == <<n_nodes, show_plot, G, tree, n_extra_edges, it>>
sfVars  == <<A, prog, eng, results, stdout, samples_npy>>

(***************************************************************************)
(* Bounds of the model                                                     *)
(***************************************************************************)
MaxNodes == 4       \* n_nodes ranges over 1 .. MaxNodes
NumOutcomes == 2    \* distinct sample arrays an engine run may return

(***************************************************************************)
(* Values                                                                  *)
(***************************************************************************)
NoExc == [in |-> "none", at |-> "none"]
NoGraph == [nodes |-> {}, adj |-> {}]
NoProg == [modes |-> 0, ops |-> <<>>]
NoEng == [kind |-> "none", backend |-> "none", runs |-> <<>>]
NoMatrix == <<>>
NoResults == [returned |-> FALSE, samples |-> 0]
NoSim == [built |-> FALSE, ptcl |-> <<>>, diags |-> <<>>, iteration |-> 0,
          steps |-> <<>>]

\* the statement that follows statement p in a straight-line block
After(order, p) ==
    order[(CHOOSE i \in 1 .. (Len(order) - 1) : order[i] = p) + 1]

Nodes(n) == 0 .. (n - 1)

Min(S) == CHOOSE x \in S : \A y \in S : x <= y

(***************************************************************************)
(* networkx graphs.  A Graph keeps a node set and a symmetric adjacency;   *)
(* an undirected edge u-v is the two ordered pairs <<u,v>> and <<v,u>>.    *)
(***************************************************************************)
GraphOfEdges(n, E) ==
    [nodes |-> Nodes(n),
     adj   |-> {p \in Nodes(n) \X Nodes(n) : {p[1], p[2]} \in E}]

HasEdge(g, u, v) == <<u, v>> \in g.adj

AddEdge(g, u, v) ==
    [nodes |-> g.nodes \cup {u, v},
     adj   |-> g.adj \cup {<<u, v>>, <<v, u>>}]

\* the undirected edges of g, each as the set of its end points
Edges(g) == {{p[1], p[2]} : p \in g.adj}

(***************************************************************************)
(* nx.generators.trees.random_tree(n): a single node for n = 1, otherwise  *)
(* the tree decoded from a random Pruefer sequence of length n - 2.        *)
(***************************************************************************)
RECURSIVE CountIn(_, _)
CountIn(seq, k) ==
    IF seq = <<>> THEN 0
    ELSE (IF Head(seq) = k THEN 1 ELSE 0) + CountIn(Tail(seq), k)

RECURSIVE PruferEdges(_, _)
PruferEdges(seq, deg) ==
    LET leaves == {k \in DOMAIN deg : deg[k] = 1} IN
    IF seq = <<>> THEN {leaves}
    ELSE LET u == Min(leaves)
             v == Head(seq)
         IN  {{u, v}} \cup
             PruferEdges(Tail(seq), [deg EXCEPT ![u] = 0, ![v] = @ - 1])

FromPruferSequence(seq) ==
    LET n == Len(seq) + 2
    IN  GraphOfEdges(n, PruferEdges(seq, [k \in Nodes(n) |-> 1 + CountIn(seq, k)]))

\* a generator that returns any graph with n - 1 edges (not necessarily a tree)
RandomSparseGraph(n) ==
    {GraphOfEdges(n, E) : E \in {F \in SUBSET {{u, v} : u, v \in Nodes(n)} :
                                   /\ Cardinality(F) = n - 1
                                   /\ \A e \in F : Cardinality(e) = 2}}

RandomTree(n) ==
    IF n = 1 THEN {GraphOfEdges(1, {})}
    ELSE {FromPruferSequence(s) : s \in [1 .. (n - 2) -> Nodes(n)]}

(***************************************************************************)
(* numpy.random                                                            *)
(***************************************************************************)
\* np.random.randint(low, high): an integer in [low, high)
RandInt(low, high) == low .. (high - 1)

\* np.random.choice(n, 2) with replacement
ChoiceWithReplacement(n) == Nodes(n) \X Nodes(n)

\* np.random.choice(n, 2, replace=False): two different values of 0..n-1;
\* there is none when n < 2, and the call raises ValueError
Choice(n) == {p \in Nodes(n) \X Nodes(n) : p[1] # p[2]}

(***************************************************************************)
(* graph_custom (lines 8-32)                                               *)
(***************************************************************************)
GcRandomTree ==
    /\ script = "graph_custom" /\ pc = "gc_tree"
    /\ \E t \in RandomTree(n_nodes) : G' = t /\ tree' = t
    /\ pc' = "gc_randint"
    /\ UNCHANGED <<script, exc, n_nodes, show_plot, n_extra_edges, it, sfVars, sim>>

GcRandint ==
    /\ script = "graph_custom" /\ pc = "gc_randint"
    /\ n_extra_edges' \in RandInt(1, n_nodes + 1)
    /\ it' = 0
    /\ pc' = "gc_loop"
    /\ UNCHANGED <<script, exc, n_nodes, show_plot, G, tree, sfVars, sim>>

\* one iteration of the loop of lines 20-26
GcIteration ==
    /\ script = "graph_custom" /\ pc = "gc_loop" /\ it < n_extra_edges
    /\ \E p \in Choice(n_nodes) :
         G' = IF ~HasEdge(G, p[1], p[2]) THEN AddEdge(G, p[1], p[2]) ELSE G
    /\ it' = it + 1
    /\ UNCHANGED <<script, pc, exc, n_nodes, show_plot, tree, n_extra_edges, sfVars, sim>>

\* line 22 when the population is smaller than the sample
GcChoiceRaises ==
    /\ script = "graph_custom" /\ pc = "gc_loop" /\ it < n_extra_edges
    /\ Choice(n_nodes) = {}
    /\ pc' = "raised"
    /\ exc' = [in |-> "graph_custom", at |-> "choice"]
    /\ UNCHANGED <<script, gcVars, sfVars, sim>>

GcLoopExit ==
    /\ script = "graph_custom" /\ pc = "gc_loop" /\ it = n_extra_edges
    /\ pc' = IF show_plot THEN "gc_plot" ELSE "gc_return"
    /\ UNCHANGED <<script, exc, gcVars, sfVars, sim>>

\* lines 29-30: nx.draw and plt.show leave G as it is
GcPlot ==
    /\ script = "graph_custom" /\ pc = "gc_plot"
    /\ pc' = "gc_return"
    /\ UNCHANGED <<script, exc, gcVars, sfVars, sim>>

GcPlotRaises ==
    /\ script = "graph_custom" /\ pc = "gc_plot"
    /\ pc' = "raised"
    /\ exc' = [in |-> "graph_custom", at |-> "plot"]
    /\ UNCHANGED <<script, gcVars, sfVars, sim>>

\* line 32 and line 61-62: G is handed to the caller, which passes it to
\* gen_random_search; the locals of graph_custom go out of scope
GcReturn ==
    /\ script = "graph_custom" /\ pc = "gc_return"
    /\ pc' = "grs_adjacency"
    /\ tree' = NoGraph /\ n_extra_edges' = 0 /\ it' = 0
    /\ UNCHANGED <<script, exc, n_nodes, show_plot, G, sfVars, sim>>

(***************************************************************************)
(* gen_random_search (lines 34-58)                                         *)
(***************************************************************************)
\* nx.adjacency_matrix(G).todense(): entry [i, j] is 1 iff i-j is an edge
AdjacencyMatrix(g) ==
    [p \in g.nodes \X g.nodes |-> IF HasEdge(g, p[1], p[2]) THEN 1 ELSE 0]

\* all the modes of a program, as `q` of `with prog.context as q`
AllModes(n) == [i \in 1 .. n |-> i - 1]

\* shots of the run of line 54
GrsShots == 1000

\* the statements of gen_random_search, in program order
GrsOrderSaveFirst ==
    <<"grs_adjacency", "grs_print_adj", "grs_program", "grs_embed",
      "grs_measure", "grs_engine", "grs_save", "grs_run", "grs_print", "done">>

GrsOrder ==
    <<"grs_adjacency", "grs_print_adj", "grs_program", "grs_embed",
      "grs_measure", "grs_engine", "grs_run", "grs_print", "grs_save", "done">>

\* the library calls of gen_random_search
GrsCalls ==
    {"grs_adjacency", "grs_program", "grs_embed", "grs_measure",
     "grs_engine", "grs_run", "grs_save"}

\* an exception handler that logs and carries on with the next statement
GrsSwallowed(at) == After(GrsOrder, at)

\* where control goes when the call at `at` raises: no try/except anywhere,
\* so the exception leaves gen_random_search and ends the script
GrsOnRaise(at) == "raised"

GrsAdjacency ==
    /\ script = "graph_custom" /\ pc = "grs_adjacency"
    /\ A' = AdjacencyMatrix(G)
    /\ pc' = After(GrsOrder, pc)
    /\ UNCHANGED <<script, exc, gcVars, prog, eng, results, stdout, samples_npy, sim>>

GrsPrintAdjacency ==
    /\ script = "graph_custom" /\ pc = "grs_print_adj"
    /\ stdout' = Append(stdout, [text |-> "got adjacency matrix", value |-> 0])
    /\ pc' = After(GrsOrder, pc)
    /\ UNCHANGED <<script, exc, gcVars, A, prog, eng, results, samples_npy, sim>>

GrsProgram ==
    /\ script = "graph_custom" /\ pc = "grs_program"
    /\ prog' = [modes |-> n_nodes, ops |-> <<>>]
    /\ pc' = After(GrsOrder, pc)
    /\ UNCHANGED <<script, exc, gcVars, A, eng, results, stdout, samples_npy, sim>>

GrsGraphEmbed ==
    /\ script = "graph_custom" /\ pc = "grs_embed"
    /\ prog' = [prog EXCEPT !.ops = Append(@,
                  [gate |-> "GraphEmbed", arg |-> A, modes |-> AllModes(prog.modes)])]
    /\ pc' = After(GrsOrder, pc)
    /\ UNCHANGED <<script, exc, gcVars, A, eng, results, stdout, samples_npy, sim>>

GrsMeasureFock ==
    /\ script = "graph_custom" /\ pc = "grs_measure"
    /\ prog' = [prog EXCEPT !.ops = Append(@,
                  [gate |-> "MeasureFock", arg |-> NoMatrix, modes |-> AllModes(prog.modes)])]
    /\ pc' = After(GrsOrder, pc)
    /\ UNCHANGED <<script, exc, gcVars, A, eng, results, stdout, samples_npy, sim>>

GrsEngine ==
    /\ script = "graph_custom" /\ pc = "grs_engine"
    /\ eng' = [kind |-> "Engine", backend |-> "gaussian", runs |-> <<>>]
    /\ pc' = After(GrsOrder, pc)
    /\ UNCHANGED <<script, exc, gcVars, A, prog, results, stdout, samples_npy, sim>>

\* line 54: the engine returns one of the possible sample arrays
GrsRun ==
    /\ script = "graph_custom" /\ pc = "grs_run"
    /\ eng' = [eng EXCEPT !.runs = Append(@, [prog |-> prog, shots |-> GrsShots])]
    /\ \E s \in 1 .. NumOutcomes : results' = [returned |-> TRUE, samples |-> s]
    /\ pc' = After(GrsOrder, pc)
    /\ UNCHANGED <<script, exc, gcVars, A, prog, stdout, samples_npy, sim>>

GrsPrintSamples ==
    /\ script = "graph_custom" /\ pc = "grs_print"
    /\ stdout' = Append(stdout, [text |-> "Measured photon numbers per mode:",
                                 value |-> results.samples])
    /\ pc' = After(GrsOrder, pc)
    /\ UNCHANGED <<script, exc, gcVars, A, prog, eng, results, samples_npy, sim>>

GrsSave ==
    /\ script = "graph_custom" /\ pc = "grs_save"
    /\ samples_npy' = Append(samples_npy, results.samples)
    /\ pc' = After(GrsOrder, pc)
    /\ UNCHANGED <<script, exc, gcVars, A, prog, eng, results, stdout, sim>>

\* any library call of gen_random_search may raise
GrsRaises ==
    /\ script = "graph_custom" /\ pc \in GrsCalls
    /\ pc' = GrsOnRaise(pc)
    /\ exc' = [in |-> "gen_random_search", at |-> pc]
    /\ UNCHANGED <<script, gcVars, sfVars, sim>>

(***************************************************************************)
(* teleportation.py                                                        *)
(***************************************************************************)
\* number of registers of the program of line 12
TpModes == 3

\* shots of the run of line 67
TpShots == 1

Op(gate, modes, uses) == [gate |-> gate, modes |-> modes, uses |-> uses]

\* a variant that feeds forward before measuring
TpOpsFeedforwardFirst ==
    <<Op("Coherent", <<0>>, {}),
      Op("Squeezed", <<1>>, {}),
      Op("Squeezed", <<2>>, {}),
      Op("BSgate", <<1, 2>>, {}),
      Op("BSgate", <<0, 1>>, {}),
      Op("Xgate", <<2>>, {0}),
      Op("MeasureX", <<0>>, {}),
      Op("MeasureP", <<1>>, {}),
      Op("Zgate", <<2>>, {1})>>

\* the operations of lines 22-39 in program order: the gate, the modes it
\* is applied to, and the modes whose measured value (q[i].par) it uses
TpOps ==
    <<Op("Coherent", <<0>>, {}),
      Op("Squeezed", <<1>>, {}),
      Op("Squeezed", <<2>>, {}),
      Op("BSgate", <<1, 2>>, {}),
      Op("BSgate", <<0, 1>>, {}),
      Op("MeasureX", <<0>>, {}),
      Op("MeasureP", <<1>>, {}),
      Op("Xgate", <<2>>, {0}),
      Op("Zgate", <<2>>, {1})>>

TpProgram ==
    /\ script = "teleportation" /\ pc = "tp_program"
    /\ prog' = [modes |-> TpModes, ops |-> <<>>]
    /\ pc' = "tp_context"
    /\ UNCHANGED <<script, exc, gcVars, A, eng, results, stdout, samples_npy, sim>>

\* one `op | q[...]` statement of the with block queues one operation
TpQueue ==
    /\ script = "teleportation" /\ pc = "tp_context"
    /\ Len(prog.ops) < Len(TpOps)
    /\ prog' = [prog EXCEPT !.ops = Append(@, TpOps[Len(prog.ops) + 1])]
    /\ UNCHANGED <<script, pc, exc, gcVars, A, eng, results, stdout, samples_npy, sim>>

TpContextExit ==
    /\ script = "teleportation" /\ pc = "tp_context"
    /\ Len(prog.ops) = Len(TpOps)
    /\ pc' = "tp_engine"
    /\ UNCHANGED <<script, exc, gcVars, sfVars, sim>>

TpEngine ==
    /\ script = "teleportation" /\ pc = "tp_engine"
    /\ eng' = [kind |-> "RemoteEngine", backend |-> "simulon_gaussian", runs |-> <<>>]
    /\ pc' = "tp_run"
    /\ UNCHANGED <<script, exc, gcVars, A, prog, results, stdout, samples_npy, sim>>

TpRun ==
    /\ script = "teleportation" /\ pc = "tp_run"
    /\ eng' = [eng EXCEPT !.runs = Append(@, [prog |-> prog, shots |-> TpShots])]
    /\ \E s \in 1 .. NumOutcomes : results' = [returned |-> TRUE, samples |-> s]
    /\ pc' = "tp_print"
    /\ UNCHANGED <<script, exc, gcVars, A, prog, stdout, samples_npy, sim>>

TpPrint ==
    /\ script = "teleportation" /\ pc = "tp_print"
    /\ stdout' = Append(stdout, [text |-> "", value |-> results.samples])
    /\ pc' = "done"
    /\ UNCHANGED <<script, exc, gcVars, A, prog, eng, results, samples_npy, sim>>

\* any call into the SDK may raise; nothing catches it
TpRaises ==
    /\ script = "teleportation" /\ pc \in {"tp_program", "tp_context", "tp_engine", "tp_run"}
    /\ pc' = "raised"
    /\ exc' = [in |-> "teleportation", at |-> pc]
    /\ UNCHANGED <<script, gcVars, sfVars, sim>>

(***************************************************************************)
(* simulation.py                                                           *)
(***************************************************************************)
\* period of both diagnostics (lines 33-34)
DiagPeriod == 100

\* argument of sim.step (line 38)
NStep == 1000

\* a variant that runs before the diagnostics are attached
SimOrderStepFirst ==
    <<"sim_construct", "sim_plasma", "sim_bunch", "sim_step", "sim_diags", "done">>

\* the statements of lines 22-38, in program order
SimOrder ==
    <<"sim_construct", "sim_plasma", "sim_bunch", "sim_diags", "sim_step", "done">>

SimConstruct ==
    /\ script = "simulation" /\ pc = "sim_construct"
    /\ sim' = [built |-> TRUE, ptcl |-> <<>>, diags |-> <<>>, iteration |-> 0,
               steps |-> <<>>]
    /\ pc' = After(SimOrder, pc)
    /\ UNCHANGED <<script, exc, gcVars, sfVars>>

SimAddPlasma ==
    /\ script = "simulation" /\ pc = "sim_plasma"
    /\ sim' = [sim EXCEPT !.ptcl = Append(@, "plasma")]
    /\ pc' = After(SimOrder, pc)
    /\ UNCHANGED <<script, exc, gcVars, sfVars>>

SimAddElecBunch ==
    /\ script = "simulation" /\ pc = "sim_bunch"
    /\ sim' = [sim EXCEPT !.ptcl = Append(@, "bunch")]
    /\ pc' = After(SimOrder, pc)
    /\ UNCHANGED <<script, exc, gcVars, sfVars>>

\* lines 33-35: the list is built and then assigned to sim.diags
SimSetDiags ==
    /\ script = "simulation" /\ pc = "sim_diags"
    /\ sim' = [sim EXCEPT !.diags =
                 <<[kind |-> "FieldDiagnostic", period |-> DiagPeriod,
                    sim |-> "sim", species |-> "none"],
                   [kind |-> "ParticleDiagnostic", period |-> DiagPeriod,
                    sim |-> "sim", species |-> sim.ptcl[1]]>>]
    /\ pc' = After(SimOrder, pc)
    /\ UNCHANGED <<script, exc, gcVars, sfVars>>

\* line 38: one call that advances the simulation by N time steps
SimStep ==
    /\ script = "simulation" /\ pc = "sim_step"
    /\ sim' = [sim EXCEPT !.iteration = @ + NStep,
                          !.steps = Append(@, [N |-> NStep, diags |-> sim.diags])]
    /\ pc' = After(SimOrder, pc)
    /\ UNCHANGED <<script, exc, gcVars, sfVars>>

\* any call into fbpic may raise; nothing catches it
SimRaises ==
    /\ script = "simulation" /\ pc \in {"sim_construct", "sim_plasma", "sim_bunch", "sim_diags", "sim_step"}
    /\ pc' = "raised"
    /\ exc' = [in |-> "simulation", at |-> pc]
    /\ UNCHANGED <<script, gcVars, sfVars, sim>>

(***************************************************************************)
(* The runs                                                                *)
(***************************************************************************)
Start(s) ==
    CASE s = "graph_custom"  -> "gc_tree"
      [] s = "teleportation" -> "tp_program"
      [] s = "simulation"    -> "sim_construct"

\* graph_custom is entered with any n_nodes of 1 .. MaxNodes and either value
\* of show_plot; the __main__ block passes the same n_nodes (the default of
\* both functions, 10) to graph_custom and to gen_random_search.
Init ==
    /\ script \in {"graph_custom", "teleportation", "simulation"}
    /\ pc = Start(script)
    /\ exc = NoExc
    /\ n_nodes \in IF script = "graph_custom" THEN 1 .. MaxNodes ELSE {0}
    /\ show_plot \in IF script = "graph_custom" THEN BOOLEAN ELSE {FALSE}
    /\ G = NoGraph /\ tree = NoGraph
    /\ n_extra_edges = 0 /\ it = 0
    /\ A = NoMatrix /\ prog = NoProg /\ eng = NoEng /\ results = NoResults
    /\ stdout = <<>> /\ samples_npy = <<>>
    /\ sim = NoSim

Next ==
    \/ GcRandomTree \/ GcRandint \/ GcIteration \/ GcChoiceRaises
    \/ GcLoopExit \/ GcPlot \/ GcPlotRaises \/ GcReturn
    \/ GrsAdjacency \/ GrsPrintAdjacency \/ GrsProgram \/ GrsGraphEmbed
    \/ GrsMeasureFock \/ GrsEngine \/ GrsRun \/ GrsPrintSamples \/ GrsSave
    \/ GrsRaises
    \/ TpProgram \/ TpQueue \/ TpContextExit \/ TpEngine \/ TpRun \/ TpPrint
    \/ TpRaises
    \/ SimConstruct \/ SimAddPlasma \/ SimAddElecBunch \/ SimSetDiags
    \/ SimStep \/ SimRaises

Spec == Init /\ [][Next]_vars

(***************************************************************************)
(* Properties                                                              *)
(***************************************************************************)
RECURSIVE ReachFrom(_, _)
ReachFrom(g, S) ==
    LET T == S \cup {v \in g.nodes : \E u \in S : <<u, v>> \in g.adj}
    IN  IF T = S THEN S ELSE ReachFrom(g, T)

\* every pair of nodes of g is joined by a path
Connected(g) ==
    /\ g.nodes # {}
    /\ \A u \in g.nodes : ReachFrom(g, {u}) = g.nodes

\* graph_custom has come to its return statement, or has returned
GcAtReturn ==
    /\ script = "graph_custom"
    /\ exc.in # "graph_custom"
    /\ pc \notin {"gc_tree", "gc_randint", "gc_loop", "gc_plot"}

\* the entries of stdout that print_samples wrote
SamplePrints ==
    {i \in 1 .. Len(stdout) : stdout[i].text = "Measured photon numbers per mode:"}

IsMeasurement(op) == op.gate \in {"MeasureX", "MeasureP"}

ModesOf(op) == {op.modes[i] : i \in 1 .. Len(op.modes)}

\* C1: whenever graph_custom returns a graph, for any n_nodes >= 1 and any
\* outcome of the random choices, that graph is connected.
C1_ReturnedGraphConnected == GcAtReturn => Connected(G)

C1_Witness ==
    /\ script = "graph_custom" /\ pc = "gc_return"
    /\ n_nodes >= 3 /\ G # tree /\ Connected(G)

\* C2: for every n_nodes >= 1, graph_custom(n_nodes) does not raise and
\* returns a graph whose nodes are exactly 0 .. n_nodes-1.
C2_CompletesWithAllNodes ==
    (script = "graph_custom" /\ ~show_plot) =>
        /\ exc.in # "graph_custom"
        /\ (pc = "gc_return" => G.nodes = Nodes(n_nodes))

\* C3: the graph graph_custom returns has between 1 and n_nodes edges that
\* the initial random tree did not have.
C3_ExtraEdgesInRange ==
    (script = "graph_custom" /\ pc = "gc_return") =>
        LET extra == Cardinality(Edges(G) \ Edges(tree))
        IN  1 <= extra /\ extra <= n_nodes

\* C4: gen_random_search computes the adjacency matrix of G, builds the
\* program (GraphEmbed of that matrix, then MeasureFock, both on all modes),
\* runs the gaussian engine once with 1000 shots, prints the samples and
\* then saves the samples that run returned; nothing is done twice, and
\* samples.npy is not written before the run has returned.
C4_RandomSearchOrder ==
    script = "graph_custom" =>
        /\ Len(eng.runs) <= 1 /\ Len(samples_npy) <= 1
        /\ Cardinality(SamplePrints) <= 1
        /\ prog.ops # <<>> =>
              /\ A = AdjacencyMatrix(G)
              /\ prog.modes = n_nodes
              /\ prog.ops[1] = [gate |-> "GraphEmbed", arg |-> A,
                                modes |-> AllModes(n_nodes)]
              /\ Len(prog.ops) = 2 =>
                    prog.ops[2] = [gate |-> "MeasureFock", arg |-> NoMatrix,
                                   modes |-> AllModes(n_nodes)]
        /\ eng.runs # <<>> =>
              /\ eng.kind = "Engine" /\ eng.backend = "gaussian"
              /\ eng.runs[1].shots = 1000
              /\ eng.runs[1].prog = prog
              /\ Len(prog.ops) = 2
              /\ results.returned
        /\ results.returned => Len(eng.runs) = 1
        /\ SamplePrints # {} =>
              /\ results.returned
              /\ \A i \in SamplePrints : stdout[i].value = results.samples
        /\ samples_npy # <<>> =>
              /\ results.returned
              /\ samples_npy = <<results.samples>>
              /\ SamplePrints # {}
        /\ pc = "done" =>
              /\ Len(eng.runs) = 1 /\ Len(samples_npy) = 1
              /\ Cardinality(SamplePrints) = 1

C4_Witness ==
    /\ script = "graph_custom" /\ pc = "done"
    /\ results.samples = NumOutcomes
    /\ samples_npy = <<NumOutcomes>>
    /\ n_nodes >= 2

\* C5: simulation.py constructs the Simulation, adds the plasma, adds the
\* electron bunch, attaches two diagnostics (a FieldDiagnostic and a
\* ParticleDiagnostic of period 100 on this simulation) and then advances
\* the simulation by 1000 steps in one step call; no step is taken before
\* both diagnostics are attached and the list is not changed afterwards.
C5_SimulationOrder ==
    script = "simulation" =>
        /\ Len(sim.ptcl) <= 2 /\ Len(sim.steps) <= 1
        /\ sim.ptcl # <<>> => sim.built /\ sim.ptcl[1] = "plasma"
        /\ Len(sim.ptcl) = 2 => sim.ptcl[2] = "bunch"
        /\ sim.diags # <<>> =>
              /\ Len(sim.ptcl) = 2
              /\ Len(sim.diags) = 2
              /\ sim.diags[1].kind = "FieldDiagnostic"
              /\ sim.diags[2].kind = "ParticleDiagnostic"
              /\ \A i \in 1 .. 2 : sim.diags[i].period = 100 /\ sim.diags[i].sim = "sim"
        /\ sim.steps # <<>> =>
              /\ sim.steps[1].N = 1000
              /\ sim.steps[1].diags = sim.diags
              /\ Len(sim.diags) = 2
        /\ sim.iteration = (IF sim.steps = <<>> THEN 0 ELSE 1000)
        /\ pc = "done" => Len(sim.steps) = 1

C5_Witness ==
    /\ script = "simulation" /\ pc = "done"
    /\ sim.iteration = 1000 /\ Len(sim.diags) = 2

\* C6: nothing catches an exception.  When the adjacency matrix, the program
\* construction or eng.run fails in gen_random_search, the script ends there
\* with samples.npy unwritten and no samples printed; when graph_custom
\* fails, gen_random_search is never entered.
C6_FailurePropagates ==
    /\ (exc.in = "gen_random_search" /\ exc.at # "grs_save") =>
          /\ pc = "raised"
          /\ ~ENABLED Next
          /\ samples_npy = <<>>
          /\ SamplePrints = {}
    /\ exc.in = "graph_custom" =>
          /\ pc = "raised"
          /\ ~ENABLED Next
          /\ A = NoMatrix /\ prog = NoProg /\ eng = NoEng
          /\ stdout = <<>> /\ samples_npy = <<>>

C6_Witness ==
    /\ exc = [in |-> "gen_random_search", at |-> "grs_run"]
    /\ pc = "raised" /\ Len(prog.ops) = 2 /\ samples_npy = <<>>

\* C7: in the teleportation program every operation acts on modes 0..2 of
\* the 3-mode program; the Xgate on mode 2 that uses q[0].par comes after
\* MeasureX on mode 0 and the Zgate on mode 2 that uses q[1].par after
\* MeasureP on mode 1; nothing is applied to mode 0 or 1 once it has been
\* measured; the program is run once, on the remote engine, with shots = 1,
\* after all nine operations are queued, and the results are printed after.
C7_TeleportationOrder ==
    script = "teleportation" =>
        LET ops == prog.ops IN
        /\ \A i \in 1 .. Len(ops) : ModesOf(ops[i]) \subseteq 0 .. 2
        /\ ops # <<>> => prog.modes = 3
        /\ \A i \in 1 .. Len(ops) :
              /\ ops[i].gate = "Xgate" =>
                    /\ ops[i].modes = <<2>> /\ ops[i].uses = {0}
                    /\ \E j \in 1 .. (i - 1) :
                          ops[j].gate = "MeasureX" /\ ops[j].modes = <<0>>
              /\ ops[i].gate = "Zgate" =>
                    /\ ops[i].modes = <<2>> /\ ops[i].uses = {1}
                    /\ \E j \in 1 .. (i - 1) :
                          ops[j].gate = "MeasureP" /\ ops[j].modes = <<1>>
              /\ ops[i].uses # {} => ops[i].gate \in {"Xgate", "Zgate"}
        /\ \A j \in 1 .. Len(ops) : \A i \in (j + 1) .. Len(ops) :
              IsMeasurement(ops[j]) => ModesOf(ops[i]) \cap ModesOf(ops[j]) = {}
        /\ Len(eng.runs) <= 1
        /\ eng.runs # <<>> =>
              /\ eng.kind = "RemoteEngine"
              /\ eng.runs[1].shots = 1
              /\ eng.runs[1].prog = prog
              /\ Len(prog.ops) = 9
              /\ {j \in 1 .. 9 : ops[j].gate = "Xgate"} # {}
              /\ {j \in 1 .. 9 : ops[j].gate = "Zgate"} # {}
              /\ results.returned
        /\ results.returned => Len(eng.runs) = 1
        /\ stdout # <<>> =>
              /\ Len(stdout) = 1
              /\ results.returned
              /\ stdout[1].value = results.samples
        /\ pc = "done" => Len(eng.runs) = 1 /\ Len(stdout) = 1

C7_Witness ==
    /\ script = "teleportation" /\ pc = "done"
    /\ Len(prog.ops) = 9 /\ Len(eng.runs) = 1 /\ Len(stdout) = 1

\* C8: for n_nodes >= 2, after every iteration of the edge-adding loop the
\* graph is a simple undirected graph on the nodes 0 .. n_nodes-1: no
\* self-loop, a symmetric adjacency with each edge held once, no other node.
C8_SimpleGraphAfterIteration ==
    (script = "graph_custom" /\ n_nodes >= 2 /\ it >= 1) =>
        /\ G.nodes = Nodes(n_nodes)
        /\ G.adj \subseteq G.nodes \X G.nodes
        /\ \A p \in G.adj : p[1] # p[2] /\ <<p[2], p[1]>> \in G.adj
        /\ Cardinality(G.adj) = 2 * Cardinality(Edges(G))
        /\ \A e \in Edges(tree) : e \in Edges(G)

C8_Witness ==
    /\ script = "graph_custom" /\ pc = "gc_loop"
    /\ n_nodes >= 3 /\ it >= 2 /\ G # tree
    /\ Cardinality(Edges(G)) = Cardinality(Edges(tree)) + 1
=============================================================================
